---- MODULE Spec2Model ----
(***************************************************************************)
(* Model of image_search (src/src/lib.rs): the search step of _download    *)
(* (urls, _search, unpack), its directory step and path allocation loop,   *)
(* download_n and its slot tasks (download_until, next_available!,         *)
(* download_image with its content sniffing).                              *)
(*                                                                         *)
(* Strings are sequences of tokens: "." is the dot character, a digit      *)
(* token is one decimal digit and every other token is a dot-free,         *)
(* digit-free piece of text.  A file name is such a sequence; every file   *)
(* lives in the destination directory.                                     *)
(***************************************************************************)
EXTENDS Integers, Sequences, FiniteSets, TLC

\* ---------------------------------------------------------------- bounds
MaxPool == 3
MaxSlots == 2
MaxNamePool == 2

\* ---------------------------------------------------------------- inputs
\* URLs are opaque strings; only their equality matters, so a pool is given
\* up to renaming: position 1 holds URL 1 and every later position holds a
\* URL seen before or the next fresh one.
RECURSIVE MaxOf(_)
MaxOf(q) == IF q = <<>> THEN 0
            ELSE LET m == MaxOf(Tail(q)) IN IF Head(q) > m THEN Head(q) ELSE m

Pools == { q \in UNION { [1..n -> 1..MaxPool] : n \in 0..MaxPool } :
             \A i \in 1..Len(q) : q[i] <= MaxOf(SubSeq(q, 1, i - 1)) + 1 }

Queries == { <<"cat">> }

OldFile == [from |-> 0, complete |-> TRUE]

\* the destination directory before the call, holding cat0.png
Directories == { [n \in { <<"cat", "0", ".", "png">> } |-> OldFile] }

VARIABLES
  query,            \* args.query
  limit,            \* args.limit
  timeout,          \* args.timeout is Some(_)
  served,           \* the bodies the hosts of the pool's URLs serve
  images,           \* the URLs handed to download_n
  files,            \* the destination directory: file name -> content
  suffix,           \* _download: suffix
  paths,            \* _download: paths (the stems)
  phase,            \* position of _download / download_n
  mut_urls,         \* download_n: the shared pool behind the mutex
  lock,             \* the slot holding the mutex guard, 0 if none
  pc,               \* position of every slot task
  url,              \* download_until: url of every slot
  result,           \* the Ok(path) a slot ended with
  attempts,         \* history: the calls of download_image, in call order
  with_extensions,  \* what download_n returned
  recv,             \* unpack: recv, the body of the search response
  unpacked,         \* what unpack(recv) came to
  buf,              \* download_image: buf, the bytes fetched
  extension,        \* download_image: extension, or why there is none
  error,            \* the Err(_) _download or _search returned, if any
  found             \* the images _search returned

\* the variables the allocation loop and download_n never touch
others == << recv, unpacked, buf, extension, error, found >>

vars == << query, limit, timeout, served, images, files, suffix, paths, phase,
           mut_urls, lock, pc, url, result, attempts, with_extensions,
           recv, unpacked, buf, extension, error, found >>

\* unpack was not called, nothing was sniffed, no error was returned
NotUnpacked == [kind |-> "pending", images |-> <<>>]
NotSniffed == "pending"
NoError == "none"
NoSearch ==
  /\ recv = <<>>
  /\ unpacked = NotUnpacked
  /\ buf = <<>>
  /\ extension = NotSniffed
  /\ error = NoError
  /\ found = <<>>

Slots == 1..limit
NoSlot == 0

\* ------------------------------------------------------------ path names
Digits == <<"0", "1", "2", "3", "4", "5", "6", "7", "8", "9">>

\* suffix.to_string()
RECURSIVE to_string(_)
to_string(n) == IF n < 10 THEN << Digits[n + 1] >>
               ELSE to_string(n \div 10) \o << Digits[(n % 10) + 1] >>

\* dir.join(args.query.to_owned() + &suffix.to_string())
Stem(q, n) == q \o to_string(n)

\* glob::glob(path + ".*") yields at least one entry
Matches(dir, stem) ==
  \E f \in DOMAIN dir :
     /\ Len(f) > Len(stem)
     /\ SubSeq(f, 1, Len(stem)) = stem
     /\ f[Len(stem) + 1] = "."

\* the position of the last "." of a name, 0 if it has none
RECURSIVE LastDot(_)
LastDot(name) == IF name = <<>> THEN 0
                 ELSE IF name[Len(name)] = "." THEN Len(name)
                 ELSE LastDot(SubSeq(name, 1, Len(name) - 1))

\* Path::file_stem: the name up to its last dot; the whole name when it has
\* no dot or only a leading one
FileStem(name) == IF LastDot(name) <= 1 THEN name
                  ELSE SubSeq(name, 1, LastDot(name) - 1)

\* PathBuf::with_extension
WithExtension(name, ext) == FileStem(name) \o <<".", ext>>

\* ------------------------------------------------------ content sniffing
\* What one GET of download_image can produce.  net: the request fails
\* ("error"), the timeout fires first ("timeout") or the bytes arrive
\* ("bytes").  svg: the first 1024 bytes are UTF-8 and contain "<svg".
\* kind: what infer::get reports: no match ("none"), a type that is no image
\* ("app") or an image type, named by its extension.  fs: File::create
\* fails ("create"), write_all fails ("write") or both succeed ("ok").
ImageKinds == {"png"}
Kinds == {"none", "app"} \cup ImageKinds
Bodies == [svg : BOOLEAN, kind : Kinds]

\* the bodies the hosts of one run serve: here those with no "<svg" text
Hostings == { { b \in Bodies : ~b.svg } }

NoBody == [svg |-> FALSE, kind |-> "none", fs |-> "ok"]

\* async_std::future::timeout can only fire when a timeout is set (t);
\* sv are the bodies the hosts serve
Responses(t, sv) ==
  { [net |-> "error"] @@ NoBody }
  \cup (IF t THEN { [net |-> "timeout"] @@ NoBody } ELSE {})
  \cup { [net |-> "bytes", fs |-> f] @@ b : b \in sv, f \in {"ok", "create", "write"} }

\* lines 764-783: Ok(extension) or Err(DownloadError::Extension), here "none"
NoExtension == "none"
Extension(r) == IF r.svg THEN "svg"
                ELSE IF r.kind \in ImageKinds THEN r.kind
                ELSE NoExtension

\* the outcome of download_image: "ok" or the DownloadError it returns
Outcome(r) ==
  IF r.net = "error" THEN "network"
  ELSE IF r.net = "timeout" THEN "timeout"
  ELSE IF Extension(r) = NoExtension THEN "extension"
  ELSE IF r.fs # "ok" THEN "fs"
  ELSE "ok"

\* the directory after download_image got response r for URL u and stem p:
\* File::create truncates or creates the file, write_all fills it
Written(dir, p, u, r) ==
  IF r.net # "bytes" \/ Extension(r) = NoExtension \/ r.fs = "create" THEN dir
  ELSE LET name == WithExtension(p, Extension(r))
       IN  [n \in DOMAIN dir \cup {name} |->
              IF n = name THEN [from |-> u, complete |-> (r.fs = "ok")]
              ELSE dir[n]]

\* ------------------------------------------------------------------ Init
Init ==
  /\ query \in Queries
  /\ limit \in 0..MaxSlots
  /\ timeout \in BOOLEAN
  /\ served \in Hostings
  /\ images \in Pools
  /\ files \in Directories
  /\ suffix = 0
  /\ paths = <<>>
  /\ phase = "alloc"
  /\ mut_urls = <<>>
  /\ lock = NoSlot
  /\ pc = [s \in Slots |-> "unborn"]
  /\ url = [s \in Slots |-> 0]
  /\ result = [s \in Slots |-> <<>>]
  /\ attempts = <<>>
  /\ with_extensions = <<>>
  /\ NoSearch

\* ------------------------------------------------- _download: allocation
\* lines 673-680: the stem collides, step the counter and look again
AllocSkip ==
  /\ phase = "alloc"
  /\ Len(paths) < limit
  /\ Matches(files, Stem(query, suffix))
  /\ suffix' = suffix + 1
  /\ UNCHANGED << query, limit, timeout, served, images, files, paths, phase,
                  mut_urls, lock, pc, url, result, attempts, with_extensions >>
  /\ UNCHANGED others

\* mutant: the counter is not stepped after a stem is emitted
AfterEmitSame(n) == n

\* line 683: suffix += 1
AfterEmit(n) == n + 1

\* lines 682-683: the stem is free, emit it and step the counter
AllocEmit ==
  /\ phase = "alloc"
  /\ Len(paths) < limit
  /\ ~Matches(files, Stem(query, suffix))
  /\ paths' = Append(paths, Stem(query, suffix))
  /\ suffix' = AfterEmit(suffix)
  /\ UNCHANGED << query, limit, timeout, served, images, files, phase,
                  mut_urls, lock, pc, url, result, attempts, with_extensions >>
  /\ UNCHANGED others

\* ------------------------------------------------------------ download_n
\* lines 697-708: the pool goes behind the mutex, one task per stem
Spawn ==
  /\ phase = "alloc"
  /\ Len(paths) = limit
  /\ phase' = "join"
  /\ mut_urls' = images
  /\ pc' = [s \in Slots |-> "start"]
  /\ UNCHANGED << query, limit, timeout, served, images, files, suffix, paths,
                  lock, url, result, attempts, with_extensions >>
  /\ UNCHANGED others

\* ------------------------------------------------------- next_available!
\* mutant: overflow is reported while one URL is left
IsEmptyEarly(q) == Len(q) <= 1

\* line 722: mut_urls.is_empty()
IsEmpty(q) == q = <<>>

\* mutant: the head is read but stays in the pool
Remove0Peek(q) == [url |-> Head(q), rest |-> q]

\* mutant: the pool is popped from its back
Remove0Back(q) == [url |-> q[Len(q)], rest |-> SubSeq(q, 1, Len(q) - 1)]

\* line 725: mut_urls.remove(0), the URL it returns and the pool it leaves
Remove0(q) == [url |-> Head(q), rest |-> Tail(q)]

\* mutant: the guard lives on across the await of the GET
HolderAfterKept(s) == s

\* line 726 (and the return of line 723): the guard is dropped, nobody
\* holds the mutex once slot s leaves the macro
HolderAfter(s) == NoSlot

\* lines 721-728, then download_image up to the await of lines 759/761.
\* The mutex is taken (line 721 blocks while another slot holds it); on an
\* empty pool the slot ends with Overflow, else the head URL is removed
\* and its GET is sent.  att is the history before the call.
NextAvailable(s, att) ==
  /\ lock = NoSlot
  /\ lock' = HolderAfter(s)
  /\ IF IsEmpty(mut_urls)
       THEN /\ pc' = [pc EXCEPT ![s] = "overflow"]
            /\ attempts' = att
            /\ UNCHANGED << mut_urls, url >>
       ELSE /\ url' = [url EXCEPT ![s] = Remove0(mut_urls).url]
            /\ mut_urls' = Remove0(mut_urls).rest
            /\ attempts' = Append(att,
                 [slot |-> s, url |-> Remove0(mut_urls).url, res |-> "pending"])
            /\ pc' = [pc EXCEPT ![s] = "get"]

\* -------------------------------------------------------- download_until
\* line 738: the first poll of slot s draws its first URL
Start(s) ==
  /\ phase = "join"
  /\ pc[s] = "start"
  /\ NextAvailable(s, attempts)
  /\ UNCHANGED << query, limit, timeout, served, images, files, suffix, paths, phase,
                  result, with_extensions >>
  /\ UNCHANGED others

\* mutant: the loop goes on after a success
AfterAttemptNoBreak(o) == "retry"

\* mutant: a filesystem failure ends the slot
AfterAttemptFsFatal(o) == IF o = "ok" THEN "ok"
                          ELSE IF o = "fs" THEN "failed" ELSE "retry"

\* lines 742-745: Ok breaks the loop, every Err draws the next URL
AfterAttempt(o) == IF o = "ok" THEN "ok" ELSE "retry"

\* the attempt of slot s that is in flight
Current(s) == CHOOSE i \in 1..Len(attempts) :
                attempts[i].slot = s /\ attempts[i].res = "pending"

\* lines 757-797 and 741-746: the GET of slot s resolves with response r;
\* the task runs on to its end or to the await of its next GET
Respond(s, r) ==
  /\ phase = "join"
  /\ pc[s] = "get"
  /\ files' = Written(files, paths[s], url[s], r)
  /\ LET o == Outcome(r)
         att == [attempts EXCEPT ![Current(s)].res =
                                      IF o = "ok" THEN "ok" ELSE "failed"]
     IN  IF AfterAttempt(o) = "retry"
           THEN /\ NextAvailable(s, att)
                /\ UNCHANGED result
           ELSE /\ pc' = [pc EXCEPT ![s] = AfterAttempt(o)]
                /\ result' = [result EXCEPT ![s] =
                                WithExtension(paths[s], Extension(r))]
                /\ attempts' = att
                /\ UNCHANGED << mut_urls, lock, url >>
  /\ UNCHANGED << query, limit, timeout, served, images, suffix, paths, phase,
                  with_extensions >>
  /\ UNCHANGED others

\* mutant: the timeout does not bound the GET
CanHangAlways(t) == TRUE

\* lines 761 and 166: with no timeout, a server that neither sends data nor
\* fails leaves recv_bytes pending for ever
CanHang(t) == ~t

Hang(s) ==
  /\ phase = "join"
  /\ pc[s] = "get"
  /\ CanHang(timeout)
  /\ pc' = [pc EXCEPT ![s] = "hung"]
  /\ UNCHANGED << query, limit, timeout, served, images, files, suffix, paths, phase,
                  mut_urls, lock, url, result, attempts, with_extensions >>
  /\ UNCHANGED others

\* ------------------------------------------------------ download_n: join
Terminated(s) == pc[s] \in {"ok", "overflow"}

\* mutant: the join ends with the first slot that ends
JoinReadyAny == \E s \in Slots : Terminated(s)

\* mutant: the join also ends with the first slot that overflows
JoinReadyOnOverflow == \/ \A s \in Slots : Terminated(s)
                       \/ \E s \in Slots : pc[s] = "overflow"

\* line 710: future::join_all(downloaders).await
JoinReady == \A s \in Slots : Terminated(s)

\* mutant: a slot that failed contributes its bare stem
RECURSIVE CollectAll(_)
CollectAll(n) == IF n = 0 THEN <<>>
                 ELSE CollectAll(n - 1)
                      \o (IF pc[n] = "ok" THEN << result[n] >> ELSE << paths[n] >>)

\* lines 712-714: into_iter().filter_map(|x| x.ok()).collect(), slots 1..n
RECURSIVE Collect(_)
Collect(n) == IF n = 0 THEN <<>>
              ELSE Collect(n - 1) \o (IF pc[n] = "ok" THEN << result[n] >> ELSE <<>>)

\* lines 710-716 and 686-688
Return ==
  /\ phase = "join"
  /\ JoinReady
  /\ with_extensions' = Collect(limit)
  /\ phase' = "returned"
  /\ UNCHANGED << query, limit, timeout, served, images, files, suffix, paths,
                  mut_urls, lock, pc, url, result, attempts >>
  /\ UNCHANGED others

\* the allocation loop of _download alone (lines 663-684)
NextAlloc ==
  \/ AllocSkip
  \/ AllocEmit

Next ==
  \/ AllocSkip
  \/ AllocEmit
  \/ Spawn
  \/ \E s \in Slots : Start(s)
  \/ \E s \in Slots : \E r \in Responses(timeout, served) : Respond(s, r)
  \/ \E s \in Slots : Hang(s)
  \/ Return

Spec == Init /\ [][Next]_vars

\* the runs whose URLs are pairwise distinct
InitDistinct == Init /\ (\A i, j \in 1..Len(images) : i # j => images[i] # images[j])

SpecDistinct == InitDistinct /\ [][Next]_vars

\* the executor polls every woken slot task and the joining task
FairSpec == SpecDistinct /\ WF_vars(Next)

\* --------------------------------------------- inputs of the name claims
\* query texts without and with a dot
NameQueries == { <<"cat">>, <<"a", ".", "b">> }

\* a directory holding the files of one set of names
Dir(names) == [n \in names |-> OldFile]

\* names a destination directory may hold before the call
OldNames == { <<"cat", "0", ".", "png">>, <<"cat", "1", ".", "svg">>,
              <<"cat", "2">>, <<"cat", "3", ".", "tar", ".", "gz">>,
              <<"a", ".", "b", "0", ".", "png">>, <<"a", ".", "png">> }

\* cat0.png .. cat9.png: the next free suffix has two digits
TenNames == { <<"cat", Digits[d], ".", "png">> : d \in 1..10 }

AllocDirectories == { Dir(ns) : ns \in SUBSET OldNames } \cup { Dir(TenNames) }

InitAlloc ==
  /\ query \in NameQueries
  /\ limit \in 0..MaxSlots
  /\ timeout = TRUE
  /\ served = {}
  /\ images = <<>>
  /\ files \in AllocDirectories
  /\ suffix = 0
  /\ paths = <<>>
  /\ phase = "alloc"
  /\ mut_urls = <<>>
  /\ lock = NoSlot
  /\ pc = [s \in Slots |-> "unborn"]
  /\ url = [s \in Slots |-> 0]
  /\ result = [s \in Slots |-> <<>>]
  /\ attempts = <<>>
  /\ with_extensions = <<>>
  /\ NoSearch

\* directories of the whole-call runs on names
NameDirectories ==
  { Dir({}),
    Dir({ <<"cat", "0", ".", "png">>, <<"a", ".", "png">> }),
    Dir({ <<"a", ".", "b", "0", ".", "png">> }) }

\* pools of pairwise distinct URLs, up to MaxNamePool of them
NamePools == { [i \in 1..n |-> i] : n \in 0..MaxNamePool }

\* a call on every query, directory and body: the hosts serve images, SVG
\* text and other content
InitNames ==
  /\ query \in NameQueries
  /\ limit \in 0..MaxSlots
  /\ timeout \in BOOLEAN
  /\ served = Bodies
  /\ images \in NamePools
  /\ files \in NameDirectories
  /\ suffix = 0
  /\ paths = <<>>
  /\ phase = "alloc"
  /\ mut_urls = <<>>
  /\ lock = NoSlot
  /\ pc = [s \in Slots |-> "unborn"]
  /\ url = [s \in Slots |-> 0]
  /\ result = [s \in Slots |-> <<>>]
  /\ attempts = <<>>
  /\ with_extensions = <<>>
  /\ NoSearch

SpecNames == InitNames /\ [][Next]_vars

\* the allocation loop on every query, count and directory of the bounds
SpecAlloc == InitAlloc /\ [][NextAlloc]_vars

\* ---------------------------------------------------------------- claims
Distinct(q) == \A i, j \in 1..Len(q) : i # j => q[i] # q[j]

Attempted == [i \in 1..Len(attempts) |-> attempts[i].url]

AttemptsOf(s) == { i \in 1..Len(attempts) : attempts[i].slot = s }

\* C1: the calls of download_image never outnumber the URLs handed to
\* download_n, and when these are pairwise distinct no URL is attempted
\* twice, neither by two slots nor by one.
C1_AtMostOnce ==
  /\ Len(attempts) <= Len(images)
  /\ Distinct(images) => Distinct(Attempted)

\* the whole of a pool of distinct URLs was attempted, by more than one slot
C1_Witness ==
  /\ phase = "returned"
  /\ Distinct(images)
  /\ Len(images) >= 2
  /\ Len(attempts) = Len(images)
  /\ \E i, j \in 1..Len(attempts) : attempts[i].slot # attempts[j].slot

\* C2: no slot holds the mutex of the pool while its GET is in flight (or
\* hangs for ever), so a slot that is yet to draw can always do so.
C2_LockOnlyForPop ==
  \A s \in Slots :
     pc[s] \in {"get", "hung"} =>
        /\ lock # s
        /\ \A t \in Slots : pc[t] = "start" => ENABLED Start(t)

\* a slot drew a URL while the GET of another slot, drawn earlier, was
\* still in flight
C2_Witness ==
  \E i, j \in 1..Len(attempts) :
     /\ i < j
     /\ attempts[i].slot # attempts[j].slot
     /\ attempts[i].res = "pending"
     /\ pc[attempts[i].slot] \in {"get", "hung"}

\* C3: with a timeout set, download_n eventually returns with every slot
\* ended in success or Overflow after at most |pool| attempts; an attempt
\* that times out makes its slot draw the next URL while one is left.
C3_Terminates ==
  /\ timeout => <>( /\ phase = "returned"
                    /\ \A s \in Slots : Terminated(s)
                    /\ Len(attempts) <= Len(images) )
  /\ [][ \A s \in Slots : \A r \in Responses(timeout, served) :
           (Respond(s, r) /\ r.net = "timeout") =>
              IF mut_urls = <<>> THEN pc'[s] = "overflow"
              ELSE pc'[s] = "get" /\ Len(mut_urls') = Len(mut_urls) - 1 ]_vars

\* with a timeout set, a slot retried until the pool was empty and the
\* call returned
C3_Witness ==
  /\ timeout
  /\ phase = "returned"
  /\ Len(images) >= 2
  /\ Len(attempts) = Len(images)
  /\ \E s \in Slots : pc[s] = "overflow" /\ Cardinality(AttemptsOf(s)) >= 2

\* C4: download_n has returned only if every slot task has ended, with a
\* resolved path or with Overflow.
C4_JoinAll ==
  phase = "returned" =>
     \A s \in Slots :
        /\ Terminated(s)
        /\ \A i \in AttemptsOf(s) : attempts[i].res # "pending"

\* the call returned after one slot succeeded and another overflowed
C4_Witness ==
  /\ phase = "returned"
  /\ \E s, t \in Slots : pc[s] = "ok" /\ pc[t] = "overflow"

\* C5: the result of download_n holds the resolved path of every slot that
\* succeeded, in slot order, and nothing for a slot that overflowed; it is
\* never longer than the number of stems, and the call returns (with fewer
\* paths) also when slots overflowed.
C5_OnePathPerSuccess ==
  phase = "returned" =>
     LET ok == { s \in Slots : pc[s] = "ok" }
     IN  /\ Len(with_extensions) = Cardinality(ok)
         /\ Len(with_extensions) <= limit
         /\ Len(paths) = limit
         /\ \A s \in ok :
              with_extensions[Cardinality({ t \in ok : t <= s })] = result[s]
         /\ \A s \in ok : \E e \in {"svg"} \cup ImageKinds :
              result[s] = WithExtension(paths[s], e)

\* the call returned fewer paths than stems: one slot succeeded, one
\* overflowed
C5_Witness ==
  /\ phase = "returned"
  /\ limit = 2
  /\ Len(with_extensions) = 1
  /\ pc[1] = "overflow"
  /\ pc[2] = "ok"
  /\ with_extensions[1] = result[2]

\* C6: an attempt that succeeded is the last one of its slot; with one slot
\* and distinct URLs, the attempts are the pool up to and including the
\* first URL that succeeds, the one returned path holds that URL's bytes
\* and the URLs behind it are still in the pool, never attempted.
C6_StopsAtFirstSuccess ==
  /\ \A i, j \in 1..Len(attempts) :
        (i < j /\ attempts[i].slot = attempts[j].slot) => attempts[i].res = "failed"
  /\ (phase = "returned" /\ limit = 1 /\ Distinct(images) /\ pc[1] = "ok") =>
        LET n == Len(attempts)
        IN  /\ n >= 1
            /\ Attempted = SubSeq(images, 1, n)
            /\ attempts[n].res = "ok"
            /\ \A i \in 1..(n - 1) : attempts[i].res = "failed"
            /\ with_extensions = << result[1] >>
            /\ result[1] \in DOMAIN files
            /\ files[result[1]] = [from |-> images[n], complete |-> TRUE]
            /\ mut_urls = SubSeq(images, n + 1, Len(images))
            /\ \A i \in (n + 1)..Len(images) :
                  \A j \in 1..n : attempts[j].url # images[i]

\* pool [u1, u2, u3] and one slot: u1 failed, u2 succeeded, u3 is left
C6_Witness ==
  /\ phase = "returned"
  /\ limit = 1
  /\ images = << 1, 2, 3 >>
  /\ Len(attempts) = 2
  /\ attempts[1].res = "failed"
  /\ attempts[2].res = "ok"
  /\ mut_urls = << 3 >>
  /\ Len(with_extensions) = 1
  /\ files[with_extensions[1]].from = 2

AllSucceeded == \A i \in 1..Len(attempts) : attempts[i].res = "ok"

AllFailed == \A i \in 1..Len(attempts) : attempts[i].res = "failed"

\* C7: n distinct URLs, k <= n slots and no attempt failing: when the call
\* returns, every slot made one attempt, the k attempted URLs are distinct,
\* n-k URLs are left in the pool and k paths are returned.
C7_AllSucceed ==
  (phase = "returned" /\ Distinct(images) /\ Len(images) >= limit /\ AllSucceeded) =>
     /\ Len(attempts) = limit
     /\ \A s \in Slots : Cardinality(AttemptsOf(s)) = 1 /\ pc[s] = "ok"
     /\ Distinct(Attempted)
     /\ Len(mut_urls) = Len(images) - limit
     /\ mut_urls = SubSeq(images, limit + 1, Len(images))
     /\ Len(with_extensions) = limit

\* two slots, three distinct URLs, both attempts succeeded
C7_Witness ==
  /\ phase = "returned"
  /\ limit = 2
  /\ Distinct(images)
  /\ Len(images) = 3
  /\ AllSucceeded
  /\ Len(with_extensions) = 2

\* C8: k >= 1 slots and every attempt failing: when the call returns, every
\* slot ended in Overflow, the pool is empty, every URL was attempted and
\* the result is the empty sequence.
C8_AllFail ==
  (phase = "returned" /\ limit >= 1 /\ AllFailed) =>
     /\ \A s \in Slots : pc[s] = "overflow"
     /\ mut_urls = <<>>
     /\ Len(attempts) = Len(images)
     /\ with_extensions = <<>>

\* a pool of one URL and two slots: the URL failed, both slots overflowed
C8_Witness ==
  /\ phase = "returned"
  /\ limit = 2
  /\ Len(images) = 1
  /\ Len(attempts) = 1
  /\ attempts[1].res = "failed"
  /\ pc[1] = "overflow"
  /\ pc[2] = "overflow"
  /\ with_extensions = <<>>

\* C9: the URLs removed from the pool, in the order of their removal, are a
\* prefix of the initial pool, and the pool is what is behind that prefix.
C9_Fifo ==
  phase # "alloc" =>
     /\ Len(attempts) <= Len(images)
     /\ Attempted = SubSeq(images, 1, Len(attempts))
     /\ mut_urls = SubSeq(images, Len(attempts) + 1, Len(images))

\* completion is out of order: a URL drawn later has been resolved while a
\* URL drawn earlier is still in flight
C9_Witness ==
  \E i, j \in 1..Len(attempts) :
     /\ i < j
     /\ images[i] # images[j]
     /\ attempts[i].res = "pending"
     /\ attempts[j].res # "pending"

\* C10: every attempt that fails, whatever the failure (transport error,
\* timeout, Extension, File::create, write_all), makes its slot drop the URL
\* and draw the head of the pool, or end in Overflow when the pool is
\* empty; a slot ends in no other failure than Overflow.
C10_UniformRetry ==
  [][ /\ \A s \in Slots : \A r \in Responses(timeout, served) :
           (Respond(s, r) /\ Outcome(r) # "ok") =>
              IF mut_urls = <<>>
                THEN pc'[s] = "overflow" /\ mut_urls' = <<>>
                ELSE /\ pc'[s] = "get"
                     /\ url'[s] = Head(mut_urls)
                     /\ mut_urls' = Tail(mut_urls)
      /\ \A s \in Slots :
           /\ pc'[s] \in {"unborn", "start", "get", "hung", "ok", "overflow"}
           /\ (pc[s] # "overflow" /\ pc'[s] = "overflow") => mut_urls = <<>>
    ]_vars

\* a slot whose write_all failed (a partial file is left) went on to its
\* next URL
C10_Witness ==
  \E i, j \in 1..Len(attempts) :
     /\ i < j
     /\ attempts[i].slot = attempts[j].slot
     /\ attempts[i].res = "failed"
     /\ \E f \in DOMAIN files :
           ~files[f].complete /\ files[f].from = attempts[i].url


\* C11: a slot that overflows changes nothing of any other slot and does not
\* end the call: a slot with a GET in flight stays in flight while
\* download_n is joining, whatever the other slots ended with, and once it
\* succeeds its path is part of the result.
C11_NoGlobalStop ==
  /\ [](\A t \in Slots : pc[t] \in {"start", "get"} => phase = "join")
  /\ [](phase = "returned" =>
          \A t \in Slots : pc[t] = "ok" =>
             \E i \in 1..Len(with_extensions) : with_extensions[i] = result[t])
  /\ [][ \A s, t \in Slots :
           (s # t /\ pc[s] # "overflow" /\ pc'[s] = "overflow") =>
              /\ pc'[t] = pc[t]
              /\ url'[t] = url[t]
              /\ result'[t] = result[t]
              /\ phase' = phase ]_vars

\* one slot has overflowed while the GET of another is still in flight
C11_Witness ==
  /\ phase = "join"
  /\ \E s, t \in Slots : pc[s] = "overflow" /\ pc[t] = "get"


\* the smallest suffix from m on that no file of the directory collides with
RECURSIVE LeastFree(_)
LeastFree(m) == IF Matches(files, Stem(query, m)) THEN LeastFree(m + 1) ELSE m

\* the i-th smallest suffix that no file of the directory collides with
RECURSIVE NthFree(_)
NthFree(i) == IF i = 1 THEN LeastFree(0) ELSE LeastFree(NthFree(i - 1) + 1)

\* C12: the stems of the allocation loop are base+s for the smallest free
\* suffixes s, in increasing order and pairwise distinct, a free suffix
\* being one for which no file of the directory matches base+s.*; when the
\* loop ends there are exactly `limit` of them, and the suffix counter never
\* decreases.
C12_SmallestFreeSuffixes ==
  /\ [](/\ \A i \in 1..Len(paths) : paths[i] = Stem(query, NthFree(i))
        /\ \A i, j \in 1..Len(paths) : i < j =>
              paths[i] # paths[j] /\ NthFree(i) < NthFree(j)
        /\ Len(paths) <= limit
        /\ (~ENABLED NextAlloc) => Len(paths) = limit)
  /\ [][suffix' > suffix]_<<suffix, paths>>

\* the directory holds cat0.png alone: base "cat" and count 2 give cat1, cat2
C12_Witness ==
  /\ query = <<"cat">>
  /\ limit = 2
  /\ DOMAIN files = { <<"cat", "0", ".", "png">> }
  /\ paths = << <<"cat", "1">>, <<"cat", "2">> >>


\* with cat0.png .. cat9.png in the directory the first stem is cat10
C12_TwoDigits == paths # <<>> /\ paths[1] = <<"cat", "1", "0">>


\* the slot that drew URL u (the URLs of a name run are pairwise distinct)
SlotOf(u) == attempts[CHOOSE i \in 1..Len(attempts) : attempts[i].url = u].slot

\* C13: no two slots of one call write the same path: a file written by a
\* slot is never created again or rewritten by another slot.
C13_NoSharedPath ==
  [][ \A f \in DOMAIN files :
        (files[f] # OldFile /\ files'[f] # files[f]) =>
           SlotOf(files'[f].from) = SlotOf(files[f].from) ]_vars

\* C14: the path a slot resolves to is its stem, query text followed by the
\* suffix, with "." and the inferred extension appended.
C14_StemPlusExtension ==
  \A s \in Slots : pc[s] = "ok" =>
     /\ \E e \in {"svg"} \cup ImageKinds : result[s] = paths[s] \o <<".", e>>
     /\ SubSeq(result[s], 1, Len(query)) = query

\* C15: a file that was in the directory before the call is never created
\* anew or truncated by the call.
C15_OldFilesUntouched ==
  [][ \A f \in DOMAIN files : files[f] = OldFile => files'[f] = OldFile ]_vars

\* the three statements for the runs whose query text has no dot
NoDotQuery == \A i \in 1..Len(query) : query[i] # "."

C13_NoDot == [][ NoDotQuery => \A f \in DOMAIN files :
        (files[f] # OldFile /\ files'[f] # files[f]) =>
           SlotOf(files'[f].from) = SlotOf(files[f].from) ]_vars

C14_NoDot == NoDotQuery => C14_StemPlusExtension

C15_NoDot ==
  [][ NoDotQuery => \A f \in DOMAIN files : files[f] = OldFile => files'[f] = OldFile ]_vars


\* ------------------------------------------------------------------ JSON
\* serde_json::Value.  t is the variant, s the text of a String, n the value
\* of a Number (the numbers here are integers that fit an i64), a the
\* elements of an Array or the values of an Object and k the keys of an
\* Object, both in the order Map::values() walks them.
Null == [t |-> "null", s |-> "", n |-> 0, k |-> <<>>, a |-> <<>>]
Str(x) == [Null EXCEPT !.t = "string", !.s = x]
Num(x) == [Null EXCEPT !.t = "number", !.n = x]
Arr(x) == [Null EXCEPT !.t = "array", !.a = x]
Obj(keys, x) == [Null EXCEPT !.t = "object", !.k = keys, !.a = x]

\* Value::is_u64
is_u64(v) == v.t = "number" /\ v.n >= 0

\* v[j] on a Vec: the index is in range (it panics when it is not)
InRange(v, j) == j < Len(v)
At(v, j) == v[j + 1]

\* o[key] on a serde_json::Map: the key is present (it panics when it is not)
HasKey(o, key) == \E j \in 1..Len(o.k) : o.k[j] = key
Member(o, key) == o.a[CHOOSE j \in 1..Len(o.k) : o.k[j] = key]

\* ---------------------------------------------------------------- unpack
NoImage == [url |-> "", width |-> 0, height |-> 0, thumbnail |-> "", source |-> ""]

\* mutant: width and height are taken from each other's position
ImageSwapped(u, w, h, th, so) ==
  [url |-> u, width |-> h, height |-> w, thumbnail |-> th, source |-> so]

\* lines 867-873: Image { url, width, height, thumbnail, source }
Image(u, w, h, th, so) ==
  [url |-> u, width |-> w, height |-> h, thumbnail |-> th, source |-> so]

\* one turn of the loop of line 856: an Image is pushed, uoc! or the None
\* arm continues with the next record, or an index panics
Skip == [kind |-> "skip", image |-> NoImage]
Panic == [kind |-> "panic", image |-> NoImage]

\* lines 857-875 on record obj, in the order the code evaluates
Record(obj) ==
  IF ~InRange(obj, 3) THEN Panic
  ELSE IF At(obj, 3).t # "array" THEN Skip
  ELSE LET i == At(obj, 3).a
       IN
  IF ~InRange(i, 0) THEN Panic
  ELSE IF At(i, 0).t # "string" THEN Skip
  ELSE IF ~InRange(i, 1) THEN Panic
  ELSE IF At(i, 1).t # "number" THEN Skip
  ELSE IF ~InRange(i, 2) THEN Panic
  ELSE IF At(i, 2).t # "number" THEN Skip
  ELSE IF ~InRange(obj, 2) THEN Panic
  ELSE IF At(obj, 2).t # "array" THEN Skip
  ELSE IF ~InRange(At(obj, 2).a, 0) THEN Panic
  ELSE IF At(At(obj, 2).a, 0).t # "string" THEN Skip
  ELSE IF ~InRange(obj, 9) THEN Panic
  ELSE IF At(obj, 9).t # "object" THEN Skip
  ELSE IF ~HasKey(At(obj, 9), "2003") THEN Panic
  ELSE IF Member(At(obj, 9), "2003").t # "array" THEN Skip
  ELSE LET so == Member(At(obj, 9), "2003").a
       IN
  IF ~InRange(so, 2) THEN Panic
  ELSE IF At(so, 2).t # "string" THEN Skip
  ELSE [kind |-> "image",
        image |-> Image(At(i, 0).s, At(i, 1).n, At(i, 2).n,
                        At(At(obj, 2).a, 0).s, At(so, 2).s)]

\* what unpack comes to: Some(images), None, or a panic
Some(imgs) == [kind |-> "some", images |-> imgs]
None == [kind |-> "none", images |-> <<>>]
Panicked == [kind |-> "panic", images |-> <<>>]

\* lines 855-877: the loop over image_objects, imgs pushed so far
RECURSIVE Loop(_, _)
Loop(objs, imgs) ==
  IF objs = <<>> THEN Some(imgs)
  ELSE LET e == Record(Head(objs))
       IN  IF e.kind = "panic" THEN Panicked
           ELSE Loop(Tail(objs),
                     IF e.kind = "image" THEN Append(imgs, e.image) ELSE imgs)

\* lines 846-852: the filter closure
IsImageObject(list) ==
  /\ list.t = "array"
  /\ InRange(list.a, 0) /\ is_u64(At(list.a, 0))
  /\ InRange(list.a, 1) /\ At(list.a, 1).t = "array"

\* lines 843-854: the records of the values that pass the filter
ImageObjects(json) ==
  LET kept == SelectSeq(json.a, IsImageObject)
  IN  [j \in 1..Len(kept) |-> At(kept[j].a, 1).a]


\* The response body is a sequence of pieces.  A piece is a literal text
\* (lit) or, with lit = "json", the serialisation of the value json; no
\* piece holds a part of a sentinel or a ";" other than the literal pieces
\* "var m=", "var a=m" and ";".  The text "var m={" is the piece "var m="
\* followed by a piece that begins with "{".
Text(x) == [lit |-> x, json |-> Null]
Json(v) == [lit |-> "json", json |-> v]
BeginsWithBrace(p) == p.lit = "{" \/ (p.lit = "json" /\ p.json.t = "object")

MinOf(S) == CHOOSE x \in S : \A y \in S : x <= y
MaxOfSet(S) == CHOOSE x \in S : \A y \in S : x >= y

\* serde_json::from_str succeeds: the text is one JSON document
IsJson(body) == Len(body) = 1 /\ body[1].lit = "json"

\* line 838: rfind(";"), the last of the positions S of ";"
Terminator(S) == MaxOfSet(S)

\* lines 831-878
unpack(r) ==
  LET starts == { j \in 1..(Len(r) - 1) :
                    r[j].lit = "var m=" /\ BeginsWithBrace(r[j + 1]) }
  IN
  IF starts = {} THEN None
  ELSE LET body1 == SubSeq(r, MinOf(starts) + 1, Len(r))
           ends == { j \in 1..Len(body1) : body1[j].lit = "var a=m" }
       IN
  IF ends = {} THEN None
  ELSE LET body2 == SubSeq(body1, 1, MinOf(ends) - 1)
           semis == { j \in 1..Len(body2) : body2[j].lit = ";" }
       IN
  IF semis = {} THEN None
  ELSE LET body3 == SubSeq(body2, 1, Terminator(semis) - 1)
       IN
  IF ~IsJson(body3) THEN None
  ELSE IF body3[1].json.t # "object" THEN None
  ELSE Loop(ImageObjects(body3[1].json), <<>>)

\* --------------------------------------------------- the bodies unpacked
MaxEntries == 2

Nulls(n) == [j \in 1..n |-> Null]

\* a record with thumbnail part th (index 2), url part dims (index 3) and
\* source part so (index 9)
MkRecord(th, dims, so) == <<Null, Null, th, dims>> \o Nulls(5) \o <<so>>
Dims(u) == Arr(<<Str(u), Num(1920), Num(1080)>>)
Thumb(x) == Arr(<<Str(x)>>)
Site(v) == Obj(<<"2003">>, <<Arr(<<Null, Null, v>>)>>)
GoodRecord(u, th) == MkRecord(Thumb(th), Dims(u), Site(Str("S")))

\* the record of the entry [1, [null, null, ["T"], [null, "U", 1920, 1080],
\* null, null, null, null, null, {"2003": [null, null, "S"]}]]
NullFirstRecord ==
  MkRecord(Thumb("T"), Arr(<<Null, Str("U"), Num(1920), Num(1080)>>), Site(Str("S")))

GoodRecords == { GoodRecord("U", "T"), GoodRecord("V", "W") }

\* records with a part of the wrong type
WrongTypeRecords ==
  { MkRecord(Null, Dims("U"), Site(Str("S"))),
    MkRecord(Arr(<<Num(1)>>), Dims("U"), Site(Str("S"))),
    MkRecord(Thumb("T"), Null, Site(Str("S"))),
    MkRecord(Thumb("T"), Arr(<<Null, Num(1920), Num(1080)>>), Site(Str("S"))),
    MkRecord(Thumb("T"), Arr(<<Str("U"), Str("1920"), Num(1080)>>), Site(Str("S"))),
    MkRecord(Thumb("T"), Arr(<<Str("U"), Num(1920), Null>>), Site(Str("S"))),
    MkRecord(Thumb("T"), Dims("U"), Null),
    MkRecord(Thumb("T"), Dims("U"), Obj(<<"2003">>, <<Null>>)),
    MkRecord(Thumb("T"), Dims("U"), Site(Num(7))),
    NullFirstRecord }

\* records that are too short, have a part that is too short, or lack the
\* key "2003"
ShortRecords ==
  { <<>>,
    SubSeq(GoodRecord("U", "T"), 1, 3),
    SubSeq(GoodRecord("U", "T"), 1, 4),
    SubSeq(GoodRecord("U", "T"), 1, 9),
    MkRecord(Arr(<<>>), Dims("U"), Site(Str("S"))),
    MkRecord(Thumb("T"), Arr(<<>>), Site(Str("S"))),
    MkRecord(Thumb("T"), Arr(<<Str("U")>>), Site(Str("S"))),
    MkRecord(Thumb("T"), Arr(<<Str("U"), Num(1920)>>), Site(Str("S"))),
    MkRecord(Thumb("T"), Dims("U"), Obj(<<>>, <<>>)),
    MkRecord(Thumb("T"), Dims("U"), Obj(<<"2008">>, <<Arr(<<Null, Null, Str("S")>>)>>)),
    MkRecord(Thumb("T"), Dims("U"), Obj(<<"2003">>, <<Arr(<<Null, Null>>)>>)) }

Entry(rec) == Arr(<<Num(1), Arr(rec)>>)

\* values that fail the filter
NoImageObjects ==
  { Null, Str("x"), Arr(<<>>), Arr(<<Num(1)>>), Arr(<<Num(1), Null>>),
    Arr(<<Str("1"), Arr(GoodRecord("U", "T"))>>),
    Arr(<<Num(-1), Arr(GoodRecord("U", "T"))>>) }

Entries ==
  { Entry(rec) : rec \in GoodRecords \cup WrongTypeRecords \cup ShortRecords }
  \cup NoImageObjects

\* the keys of the top-level object, in the order of the map
Keys == <<"1", "2", "3", "4">>

\* the entries of the objects of several entries: well-formed ones, one
\* with a part of the wrong type, one that is too short, one that fails the
\* filter
SomeEntries ==
  { Entry(GoodRecord("U", "T")), Entry(GoodRecord("V", "W")), Entry(NullFirstRecord),
    Entry(SubSeq(GoodRecord("U", "T"), 1, 9)), Null }

\* the objects of no entry, of one entry and of up to MaxEntries entries
Objects ==
  { Obj(<<>>, <<>>) }
  \cup { Obj(SubSeq(Keys, 1, 1), <<e>>) : e \in Entries }
  \cup UNION { { Obj(SubSeq(Keys, 1, n), es) : es \in [1..n -> SomeEntries] } :
                 n \in 2..MaxEntries }


\* the value v wrapped in the sentinels: var m=<v>;var a=m
Wrapped(v) == << Text("var m="), Json(v), Text(";"), Text("var a=m") >>

\* other bodies around the value v: text before and after the script, a
\* sentinel or the terminator missing or out of place, text that is no JSON
Broken(v) ==
  { << Text("x"), Text(";") >> \o Wrapped(v) \o << Text(";"), Text("var a=m"), Text("x") >>,
    << Json(v), Text(";"), Text("var a=m") >>,
    << Text("var m="), Json(v), Text(";") >>,
    << Text("var a=m"), Text("var m="), Json(v), Text(";") >>,
    << Text("var m="), Json(v), Text("var a=m") >>,
    << Text(";"), Text("var m="), Json(v), Text("var a=m"), Text(";") >>,
    << Text("var m="), Json(v), Text("x"), Text(";"), Text("var a=m") >>,
    << Text("var m="), Json(v), Text(";"), Text(";"), Text("var a=m") >>,
    << Text("var m="), Text("{"), Text(";"), Text("var a=m") >>,
    << Text("var m="), Text("var m="), Json(v), Text(";"), Text("x"), Text("var a=m") >> }

\* the bodies: every object wrapped in the sentinels, and the objects of at
\* most one entry and a value that is no object in the other bodies
Texts ==
  { Wrapped(o) : o \in Objects \cup { Arr(<<>>) } }
  \cup UNION { Broken(o) : o \in { x \in Objects : Len(x.a) <= 1 } \cup { Arr(<<>>) } }

InitUnpack ==
  /\ query = <<>>
  /\ limit = 0
  /\ timeout = TRUE
  /\ served = {}
  /\ images = <<>>
  /\ files = Dir({})
  /\ suffix = 0
  /\ paths = <<>>
  /\ phase = "search"
  /\ mut_urls = <<>>
  /\ lock = NoSlot
  /\ pc = [s \in Slots |-> "unborn"]
  /\ url = [s \in Slots |-> 0]
  /\ result = [s \in Slots |-> <<>>]
  /\ attempts = <<>>
  /\ with_extensions = <<>>
  /\ recv \in Texts
  /\ unpacked = NotUnpacked
  /\ buf = <<>>
  /\ extension = NotSniffed
  /\ error = NoError
  /\ found = <<>>

\* the variables of the download
download == << query, limit, timeout, served, images, files, suffix, paths, phase,
               mut_urls, lock, pc, url, result, attempts, with_extensions >>

\* line 551: unpack(body)
Unpack ==
  /\ unpacked = NotUnpacked
  /\ recv # <<>>
  /\ unpacked' = unpack(recv)
  /\ UNCHANGED << download, recv, buf, extension, error, found >>

NextUnpack == Unpack

SpecUnpack == InitUnpack /\ [][NextUnpack]_vars


\* ------------------------------------------------------ claims on unpack
\* the isolated text of a body, as the format describes it: the start
\* sentinel, the first end sentinel after it, the last ";" between them
StartAt(r) ==
  LET S == { j \in 1..(Len(r) - 1) : r[j].lit = "var m=" /\ BeginsWithBrace(r[j + 1]) }
  IN  IF S = {} THEN 0 ELSE MinOf(S)

EndAt(r) ==
  LET S == { j \in (StartAt(r) + 1)..Len(r) : r[j].lit = "var a=m" }
  IN  IF StartAt(r) = 0 \/ S = {} THEN 0 ELSE MinOf(S)

TermAt(r) ==
  LET S == { j \in (StartAt(r) + 1)..(EndAt(r) - 1) : r[j].lit = ";" }
  IN  IF EndAt(r) = 0 \/ S = {} THEN 0 ELSE MaxOfSet(S)

HardFailure(r) ==
  \/ StartAt(r) = 0
  \/ EndAt(r) = 0
  \/ TermAt(r) = 0
  \/ ~IsJson(SubSeq(r, StartAt(r) + 1, TermAt(r) - 1))

\* the records of the entries of body r that pass the shape test
Candidates(r) == ImageObjects(r[StartAt(r) + 1].json)

\* a record all of whose lookups are present and of the expected type
WellFormed(obj) ==
  /\ Len(obj) >= 10
  /\ obj[3].t = "array" /\ Len(obj[3].a) >= 1 /\ obj[3].a[1].t = "string"
  /\ obj[4].t = "array" /\ Len(obj[4].a) >= 3
  /\ obj[4].a[1].t = "string" /\ obj[4].a[2].t = "number" /\ obj[4].a[3].t = "number"
  /\ obj[10].t = "object" /\ HasKey(obj[10], "2003")
  /\ Member(obj[10], "2003").t = "array" /\ Len(Member(obj[10], "2003").a) >= 3
  /\ Member(obj[10], "2003").a[3].t = "string"

\* the fields of a well-formed record r: url r[3][0], width r[3][1], height
\* r[3][2], thumbnail r[2][0], source r[9]["2003"][2]
FieldsOf(obj) ==
  [url |-> obj[4].a[1].s, width |-> obj[4].a[2].n, height |-> obj[4].a[3].n,
   thumbnail |-> obj[3].a[1].s, source |-> Member(obj[10], "2003").a[3].s]

\* the Images of the well-formed entries of body r, in order
WellFormedImages(r) ==
  LET kept == SelectSeq(Candidates(r), WellFormed)
  IN  [j \in 1..Len(kept) |-> FieldsOf(kept[j])]

\* C16: a malformed entry never aborts the parse and never raises: whenever
\* the isolated text is a JSON object, unpack returns Some with the Images
\* of all the well-formed entries, whatever the other entries look like.
C16_MalformedSkipped ==
  (unpacked # NotUnpacked /\ ~HardFailure(recv)) =>
     unpacked = Some(WellFormedImages(recv))

\* what holds instead: unless an index panics, the malformed entries are
\* skipped and the well-formed ones returned
C16_UnlessPanic ==
  (unpacked # NotUnpacked /\ ~HardFailure(recv) /\ unpacked.kind # "panic") =>
     unpacked = Some(WellFormedImages(recv))

\* a record without index 3 makes unpack panic
C16_PanicReached ==
  /\ recv = Wrapped(Obj(<<"1">>, <<Entry(SubSeq(GoodRecord("U", "T"), 1, 3))>>))
  /\ unpacked = Panicked

ExampleImage ==
  [url |-> "U", width |-> 1920, height |-> 1080, thumbnail |-> "T", source |-> "S"]

\* the body of the entry whose r[3] is [null, "U", 1920, 1080]
NullFirstText == Wrapped(Obj(<<"1">>, <<Entry(NullFirstRecord)>>))

\* the body of the entry whose r[3] is ["U", 1920, 1080]
ExampleText == Wrapped(Obj(<<"1">>, <<Entry(GoodRecord("U", "T"))>>))

\* C17 as stated: url = r[3][1], width = r[3][2], height = r[3][3], and the
\* entry with r[3] = [null, "U", 1920, 1080] yields exactly the one Image.
C17_StatedPositions ==
  /\ (recv = NullFirstText /\ unpacked # NotUnpacked) => unpacked = Some(<<ExampleImage>>)
  /\ (unpacked.kind = "some" /\ Len(unpacked.images) = 1 /\ Len(Candidates(recv)) = 1) =>
       LET dims == Candidates(recv)[1][4].a
       IN  /\ Len(dims) >= 4
           /\ unpacked.images[1].url = dims[2].s
           /\ unpacked.images[1].width = dims[3].n
           /\ unpacked.images[1].height = dims[4].n

\* C17: every entry unpack turns into an Image has url = r[3][0], width =
\* r[3][1], height = r[3][2], thumbnail = r[2][0], source = r[9]["2003"][2];
\* the entry with r[3] = ["U", 1920, 1080] yields exactly the one Image, the
\* entry with r[3] = [null, "U", 1920, 1080] yields none.
C17_Positions ==
  /\ unpacked.kind = "some" => unpacked.images = WellFormedImages(recv)
  /\ (recv = ExampleText /\ unpacked # NotUnpacked) => unpacked = Some(<<ExampleImage>>)
  /\ (recv = NullFirstText /\ unpacked # NotUnpacked) => unpacked = Some(<<>>)

C17_Witness == recv = ExampleText /\ unpacked = Some(<<ExampleImage>>)

\* two entries, both turned into Images, in the order of the object
C17_TwoImages ==
  /\ unpacked.kind = "some"
  /\ Len(unpacked.images) = 2
  /\ unpacked.images[1].url = "U" /\ unpacked.images[2].url = "V"

\* C18: unpack returns None exactly when the start sentinel, the end
\* sentinel after it or the terminator between them is missing or the
\* isolated text is no JSON; in every other case it returns Some(list), and
\* the entries that fail the shape test do not make the result None.
C18_NoneExactly ==
  unpacked # NotUnpacked =>
     /\ unpacked.kind = "none" <=> HardFailure(recv)
     /\ ~HardFailure(recv) => unpacked.kind = "some"

\* what holds instead: None exactly on a hard failure, and Some or a panic
\* in every other case
C18_UnlessPanic ==
  unpacked # NotUnpacked =>
     /\ unpacked.kind = "none" <=> HardFailure(recv)
     /\ (~HardFailure(recv) /\ unpacked.kind # "panic") => unpacked.kind = "some"

\* an object with no entry passing the shape test gives Some of no Image
C18_EmptyReached ==
  /\ recv = Wrapped(Obj(<<"1">>, <<Null>>))
  /\ unpacked = Some(<<>>)


\* ---------------------------------------------- download_image: sniffing
\* The bytes fetched are a sequence of chunks of n bytes each:
\*   "ascii"  n bytes of ASCII text without "<"
\*   "<svg"   the four bytes of the text "<svg"
\*   "wide"   one character encoded in n >= 2 bytes
\*   "bad"    one byte that occurs in no UTF-8 text
\*   "png"    the eight-byte PNG signature, which starts with such a byte
\*   "pdf"    the four ASCII bytes "%PDF"
\*   "part"   the first n bytes of a cut multi-byte character or signature
PrefixLen == 1024
MaxWide == 3

Chunk(kind, bytes) == [c |-> kind, n |-> bytes]

\* buf.iter().take(n): the chunks of the first n bytes; a chunk cut in two
\* leaves ASCII text when it was ASCII and a broken sequence otherwise
RECURSIVE Take(_, _)
Take(b, n) ==
  IF b = <<>> \/ n = 0 THEN <<>>
  ELSE IF Head(b).n <= n THEN << Head(b) >> \o Take(Tail(b), n - Head(b).n)
  ELSE IF Head(b).c \in {"ascii", "<svg", "pdf"} THEN << Chunk("ascii", n) >>
  ELSE << Chunk("part", n) >>

\* line 764
first_128(b) == Take(b, PrefixLen)

\* std::str::from_utf8(..) is Ok
from_utf8(b) == \A j \in 1..Len(b) : b[j].c \notin {"bad", "png", "part"}

\* s.contains("<svg")
contains_svg(b) == \E j \in 1..Len(b) : b[j].c = "<svg"

\* lines 764-768
svg(b) == from_utf8(first_128(b)) /\ contains_svg(first_128(b))

\* infer::get(&buf): the signature the buffer starts with
infer(b) == IF b = <<>> THEN "none"
            ELSE IF Head(b).c = "png" THEN "png"
            ELSE IF Head(b).c = "pdf" THEN "app"
            ELSE "none"

\* what lines 764-783 see of the buffer
BodyOf(b) == [svg |-> svg(b), kind |-> infer(b)]

\* the buffers: a signature or none, a mark, ASCII text up to the end of
\* the prefix or near it, a second mark
Pads == { 0, PrefixLen - 8, PrefixLen - 5, PrefixLen - 4, PrefixLen - 3,
          PrefixLen - 2, PrefixLen - 1, PrefixLen }
Marks == { <<>>, << Chunk("<svg", 4) >>, << Chunk("bad", 1) >> }
         \cup { << Chunk("wide", w) >> : w \in 2..MaxWide }
Magics == { <<>>, << Chunk("png", 8) >>, << Chunk("pdf", 4) >> }
Buffers == { m \o x \o << Chunk("ascii", p) >> \o y :
               m \in Magics, x \in Marks, p \in Pads, y \in Marks }

InitSniff ==
  /\ query = <<>>
  /\ limit = 0
  /\ timeout = TRUE
  /\ served = {}
  /\ images = <<>>
  /\ files = Dir({})
  /\ suffix = 0
  /\ paths = <<>>
  /\ phase = "sniff"
  /\ mut_urls = <<>>
  /\ lock = NoSlot
  /\ pc = [s \in Slots |-> "unborn"]
  /\ url = [s \in Slots |-> 0]
  /\ result = [s \in Slots |-> <<>>]
  /\ attempts = <<>>
  /\ with_extensions = <<>>
  /\ recv = <<>>
  /\ unpacked = NotUnpacked
  /\ buf \in Buffers
  /\ extension = NotSniffed
  /\ error = NoError
  /\ found = <<>>

\* lines 764-783 on the buffer fetched
Sniff ==
  /\ phase = "sniff"
  /\ extension = NotSniffed
  /\ extension' = Extension(BodyOf(buf))
  /\ UNCHANGED << download, recv, unpacked, buf, error, found >>

NextSniff == Sniff

SpecSniff == InitSniff /\ [][NextSniff]_vars

\* ------------------------------------------------- claims on the sniffer
RECURSIVE Bytes(_)
Bytes(b) == IF b = <<>> THEN 0 ELSE Head(b).n + Bytes(Tail(b))

\* the whole buffer is UTF-8 text
ValidUtf8(b) == \A j \in 1..Len(b) : b[j].c \notin {"bad", "png"}

\* the text "<svg" lies within the first n bytes of the buffer
TagWithin(b, n) == \E j \in 1..Len(b) : b[j].c = "<svg" /\ Bytes(SubSeq(b, 1, j)) <= n

\* C19: every fetched buffer that is valid UTF-8 and has "<svg" within its
\* first 1024 bytes is classified svg, whatever the byte signature says,
\* and so is not rejected with an Extension failure.
C19_SvgFirst ==
  (extension # NotSniffed /\ ValidUtf8(buf) /\ TagWithin(buf, PrefixLen)) =>
     /\ extension = "svg"
     /\ Outcome([net |-> "bytes", fs |-> "ok"] @@ BodyOf(buf)) = "ok"

\* what holds instead: the buffers whose first 1024 bytes are UTF-8 text
\* on their own and contain "<svg" are classified svg
C19_PrefixIsText ==
  (extension # NotSniffed /\ from_utf8(Take(buf, PrefixLen)) /\ TagWithin(buf, PrefixLen)) =>
     extension = "svg"

\* SVG text whose 1024th byte starts a two-byte character is rejected
C19_RejectedReached ==
  /\ buf = << Chunk("<svg", 4), Chunk("ascii", PrefixLen - 5), Chunk("wide", 2) >>
  /\ extension = NoExtension

\* a buffer with the signature of a non-image type and "<svg" is svg
C19_OverSignatureReached ==
  /\ buf = << Chunk("pdf", 4), Chunk("<svg", 4), Chunk("ascii", 0) >>
  /\ extension = "svg"


\* ------------------------------------------------ _download: the search
\* the bodies the search request may bring: objects of 0..MaxEntries
\* well-formed entries with pairwise distinct URLs and thumbnails, one with
\* an entry that is skipped, one without the start sentinel, one with an
\* entry that is too short
CallUrls == <<"U", "V", "X", "Y">>
CallThumbs == <<"T", "W", "Z", "Q">>
CallObject(n) ==
  Obj(SubSeq(Keys, 1, n), [j \in 1..n |-> Entry(GoodRecord(CallUrls[j], CallThumbs[j]))])
CallTexts ==
  { Wrapped(CallObject(n)) : n \in 0..MaxEntries }
  \cup { Wrapped(Obj(<<"1", "2">>, <<Entry(NullFirstRecord), Entry(GoodRecord("U", "T"))>>)),
         << Json(CallObject(1)), Text(";"), Text("var a=m") >>,
         Wrapped(Obj(<<"1">>, <<Entry(SubSeq(GoodRecord("U", "T"), 1, 9))>>)) }

\* line 549: get(url).await is Err(_) or Ok(body)
SearchResponses ==
  { [ok |-> FALSE, body |-> <<>>] } \cup { [ok |-> TRUE, body |-> t] : t \in CallTexts }

\* mutant: a limit of 0 truncates to no image
search_limit_always(imgs, lim) ==
  IF Len(imgs) > lim THEN SubSeq(imgs, 1, lim) ELSE imgs

\* lines 556-560: the images _search returns under limit lim
search_limit(imgs, lim) ==
  IF Len(imgs) > lim /\ lim > 0 THEN SubSeq(imgs, 1, lim) ELSE imgs

\* lines 586-599: urls, th is args.thumbnails
urls(th, imgs) ==
  [j \in 1..Len(imgs) |-> IF th THEN imgs[j].thumbnail ELSE imgs[j].url]

\* mutant: a failed search request is taken for an empty result
AfterGetFailedEmpty == [error |-> NoError, phase |-> "dir"]

\* lines 549 and 647: the ? operators hand Err(Error::Network) to the caller
AfterGetFailed == [error |-> "network", phase |-> "failed"]

\* lines 641-647 (urls, search, _search with limit 0): the search request
\* gets response g; th is args.thumbnails
Search(th, g) ==
  /\ phase = "search"
  /\ IF ~g.ok
       THEN /\ error' = AfterGetFailed.error
            /\ phase' = AfterGetFailed.phase
            /\ UNCHANGED << recv, unpacked, images, found >>
       ELSE /\ recv' = g.body
            /\ unpacked' = unpack(g.body)
            /\ IF unpack(g.body).kind = "none"
                 THEN /\ error' = "parse"
                      /\ phase' = "failed"
                      /\ UNCHANGED << images, found >>
                 ELSE IF unpack(g.body).kind = "panic"
                 THEN /\ phase' = "panicked"
                      /\ UNCHANGED << error, images, found >>
                 ELSE /\ found' = search_limit(unpack(g.body).images, 0)
                      /\ images' = urls(th, search_limit(unpack(g.body).images, 0))
                      /\ phase' = "dir"
                      /\ UNCHANGED error
  /\ UNCHANGED << query, limit, timeout, served, files, suffix, paths,
                  mut_urls, lock, pc, url, result, attempts, with_extensions,
                  buf, extension >>

\* lines 649-661: d tells whether env::current_dir and create_dir_all
\* succeed ("ok") or which of them fails
DirOutcomes == { "ok", "current_dir", "create_dir_all" }

MakeDir(d) ==
  /\ phase = "dir"
  /\ IF d = "ok"
       THEN /\ phase' = "alloc"
            /\ UNCHANGED error
       ELSE /\ phase' = "failed"
            /\ error' = "dir"
  /\ UNCHANGED << query, limit, timeout, served, images, files, suffix, paths,
                  mut_urls, lock, pc, url, result, attempts, with_extensions,
                  recv, unpacked, buf, extension, found >>

\* a call of _download from its first line
InitCall ==
  /\ query \in Queries
  /\ limit \in 0..MaxSlots
  /\ timeout \in BOOLEAN
  /\ served \in Hostings
  /\ images = <<>>
  /\ files \in Directories
  /\ suffix = 0
  /\ paths = <<>>
  /\ phase = "search"
  /\ mut_urls = <<>>
  /\ lock = NoSlot
  /\ pc = [s \in Slots |-> "unborn"]
  /\ url = [s \in Slots |-> ""]
  /\ result = [s \in Slots |-> <<>>]
  /\ attempts = <<>>
  /\ with_extensions = <<>>
  /\ NoSearch

NextCall ==
  \/ \E th \in BOOLEAN : \E g \in SearchResponses : Search(th, g)
  \/ \E d \in DirOutcomes : MakeDir(d)
  \/ Next

SpecCall == InitCall /\ [][NextCall]_vars


\* --------------------------------------------------- claims on the call
\* no download attempt was made and no file was created or changed
NothingDownloaded ==
  /\ attempts = <<>>
  /\ paths = <<>>
  /\ \A f \in DOMAIN files : files[f] = OldFile
  /\ \A s \in Slots : pc[s] = "unborn"

\* a hard error, once returned, ends the call before any download, and the
\* download never sets one
ErrorEndsCall ==
  /\ [](error # NoError => phase = "failed" /\ NothingDownloaded)
  /\ [](phase \in {"alloc", "join", "returned"} => error = NoError)
  /\ [][error' # error => phase \in {"search", "dir"} /\ NothingDownloaded]_vars

C20_NetworkReached == phase = "failed" /\ error = "network" /\ NothingDownloaded

\* the body could not be parsed: Err(Error::Parse)
C20_ParseReached == phase = "failed" /\ error = "parse" /\ NothingDownloaded

\* the call returned Ok although an attempt failed and a slot overflowed
C20_OkReached ==
  /\ phase = "returned"
  /\ error = NoError
  /\ \E i \in 1..Len(attempts) : attempts[i].res = "failed"
  /\ \E s \in Slots : pc[s] = "overflow"


\* ------------------------------------------------------- search: _search
\* lines 548-562 with args.limit = limit: the search request gets response g
SearchCall(g) ==
  /\ phase = "search"
  /\ IF ~g.ok
       THEN /\ error' = AfterGetFailed.error
            /\ phase' = AfterGetFailed.phase
            /\ UNCHANGED << recv, unpacked, found >>
       ELSE /\ recv' = g.body
            /\ unpacked' = unpack(g.body)
            /\ IF unpack(g.body).kind = "none"
                 THEN /\ error' = "parse"
                      /\ phase' = "failed"
                      /\ UNCHANGED found
                 ELSE IF unpack(g.body).kind = "panic"
                 THEN /\ phase' = "panicked"
                      /\ UNCHANGED << error, found >>
                 ELSE /\ found' = search_limit(unpack(g.body).images, limit)
                      /\ phase' = "searched"
                      /\ UNCHANGED error
  /\ UNCHANGED << query, limit, timeout, served, images, files, suffix, paths,
                  mut_urls, lock, pc, url, result, attempts, with_extensions,
                  buf, extension >>

\* the responses of the search request: the request fails or brings one of
\* the bodies
AllSearchResponses ==
  { [ok |-> FALSE, body |-> <<>>] } \cup { [ok |-> TRUE, body |-> t] : t \in Texts }

\* a call of search on every limit of the bounds
InitSearch ==
  /\ query \in Queries
  /\ limit \in 0..MaxSlots
  /\ timeout = TRUE
  /\ served = {}
  /\ images = <<>>
  /\ files = Dir({})
  /\ suffix = 0
  /\ paths = <<>>
  /\ phase = "search"
  /\ mut_urls = <<>>
  /\ lock = NoSlot
  /\ pc = [s \in Slots |-> "unborn"]
  /\ url = [s \in Slots |-> ""]
  /\ result = [s \in Slots |-> <<>>]
  /\ attempts = <<>>
  /\ with_extensions = <<>>
  /\ NoSearch

NextSearch == \E g \in AllSearchResponses : SearchCall(g)

SpecSearch == InitSearch /\ [][NextSearch]_vars

\* ------------------------------------------------------ claims on search
MinLen(a, b) == IF a < b THEN a ELSE b

C21_ZeroReached ==
  /\ phase = "searched"
  /\ limit = 0
  /\ Len(unpacked.images) = 2
  /\ found = unpacked.images


\* ------------------------------------------- claims on the whole download
\* the URLs of the pool
PoolUrls == { images[p] : p \in 1..Len(images) }

\* f fixes the outcome of every URL of the pool (TRUE: its attempts
\* succeed) and the attempts of the run went as f says
FixedOutcome(f) ==
  \A i \in 1..Len(attempts) :
     attempts[i].res # "pending" => ((attempts[i].res = "ok") <=> f[attempts[i].url])

\* the number of pool entries whose URL succeeds under f
Succeeding(f) == Cardinality({ p \in 1..Len(images) : f[images[p]] })

\* C22: when the outcome of an attempt is fixed per URL and s entries of the
\* pool succeed, the result has exactly min(k, s) paths under every
\* schedule of the k slots, and a slot overflows only if s < k.
C22_CountIndependent ==
  phase = "returned" =>
     \A f \in [PoolUrls -> BOOLEAN] :
        FixedOutcome(f) =>
           /\ Len(with_extensions) = MinLen(limit, Succeeding(f))
           /\ (\E s \in Slots : pc[s] = "overflow") => Succeeding(f) < limit

\* two slots on a pool of three URLs of which only the last succeeds: one
\* path, one slot overflowed
C22_Witness ==
  /\ phase = "returned"
  /\ limit = 2
  /\ images = <<1, 2, 3>>
  /\ Len(attempts) = 3
  /\ attempts[1].res = "failed" /\ attempts[2].res = "failed" /\ attempts[3].res = "ok"
  /\ Len(with_extensions) = 1
  /\ \E s \in Slots : pc[s] = "overflow"

\* a URL that occurs twice in the pool and succeeds both times
C22_TwiceReached ==
  /\ phase = "returned"
  /\ limit = 2
  /\ images = <<1, 1>>
  /\ Len(with_extensions) = 2


\* the files the call created or rewrote
Created == { f \in DOMAIN files : files[f] # OldFile }

\* the paths download_n returned
Returned == { with_extensions[i] : i \in 1..Len(with_extensions) }

\* C23: failed attempts leave no stray files: after download_n returns,
\* the files the call created are exactly the returned paths; a slot that
\* overflowed has left no file under its stem and a slot that succeeded has
\* left exactly one.
C23_NoStrayFiles ==
  phase = "returned" =>
     /\ Created = Returned
     /\ \A s \in Slots : pc[s] = "overflow" =>
           ~\E f \in Created : SubSeq(f, 1, Len(paths[s])) = paths[s]

\* what holds instead, for a query without a dot: the files created are
\* the returned paths and the files of the attempts whose write failed
\* after File::create
C23_UnlessWriteFails ==
  phase = "returned" =>
     /\ Returned \subseteq Created
     /\ \A f \in Created \ Returned : ~files[f].complete
     /\ \A f \in Returned : files[f].complete

\* an attempt that fails before the write step changes no file
C23_EarlyFailuresWriteNothing ==
  [][ \A s \in Slots : \A r \in Responses(timeout, served) :
        (Respond(s, r) /\ Outcome(r) \in {"network", "timeout", "extension"}) =>
           files' = files ]_vars

\* one slot, one URL whose write fails after the file was created: nothing
\* is returned and the file is there
C23_StrayReached ==
  /\ phase = "returned"
  /\ limit = 1
  /\ with_extensions = <<>>
  /\ pc[1] = "overflow"
  /\ \E f \in Created : ~files[f].complete

====
